---- MODULE Spec2Model ----
(***************************************************************************)
(* Model of the Alnor Home Assistant integration (nashant/ha-alnor):       *)
(*   - the humidity hysteresis check of humidity_control_mixin.py,         *)
(*     humidifier.py and climate.py;                                       *)
(*   - the connection manager of coordinator.py (setup, polling, local to  *)
(*     cloud fallback);                                                    *)
(*   - the config entry of __init__.py: platforms and their entities,      *)
(*     unloading.                                                          *)
(* SpecHumidity runs the humidity check of one heat recovery unit; Spec    *)
(* runs the coordinator's refresh cycles over the discovered devices.      *)
(***************************************************************************)
EXTENDS Integers, Sequences, FiniteSets, TLC

VARIABLES
    \* ---- humidity control of one heat recovery unit ----
    impl,                      \* which class runs the check: mixin, humidifier, climate
    options,                   \* config_entry.options of the device (per-device keys)
    sensor_state,              \* hass.states of the linked humidity sensor
    humidity_control_enabled,  \* self._humidity_control_enabled
    last_mode_change,          \* self._last_mode_change (NoTime = None)
    now,                       \* the wall clock, in seconds
    device,                    \* the unit itself: [mode, speed]
    data,                      \* coordinator.data.get(device_id): NoState or [mode, speed]
    check_pc,                  \* position of the running check: idle / await_set_mode
    run,                       \* what the current (or most recent) check did
    sensor_listener,           \* self._sensor_listener_unsub is not None
    check_tasks,               \* checks created with async_create_task, not yet started
    other,                     \* a second check, started while the first is suspended
    target_humidity,           \* self._target_humidity, the humidifier's cached target
    call,                      \* the last call of a setter of the entity and its commands
    \* ---- coordinator ----
    pc,                        \* position of the refresh: idle / connect / discover / poll / failed
    cursor,                    \* index of the next device of the running loop
    setup_complete,            \* self._setup_complete
    api,                       \* self.api: none / connected
    devices,                   \* keys of self.devices
    cloud_clients,             \* keys of self.cloud_clients
    modbus_clients,            \* keys of self.modbus_clients
    controllers,               \* self.controllers: device -> NoController / local / cloud
    connection_modes,          \* self.connection_modes: device -> none / local / cloud
    update_interval,           \* self.update_interval, in seconds
    states,                    \* the dict being built by the running poll cycle
    coordinator_data,          \* coordinator.data: keys of the last completed cycle's result
    last_error,                \* outcome of the last refresh: none / ok / auth_failed / update_failed
    product_type,              \* per device: what the cloud reports (fixed by Init)
    local_ip,                  \* per device: whether a local address is known (fixed by Init)
    cycle,                     \* log of the running refresh: connects, builds, reads per device
    cycles,                    \* number of refreshes started
    \* ---- the config entry ----
    entry_state,               \* setup / loaded / unloading / unloaded / unload_failed
    humidity_sensors,          \* per device: whether humidity sensors are configured (fixed by Init)
    entities,                  \* entities added by the platforms: <<platform, device>>
    unload,                    \* log of async_unload_entry: cursor, disconnect calls, closed clients
    \* ---- the humidity reading over several sensors ----
    sensor_list,               \* hass.states of the configured humidity sensors, in order
    reading,                   \* what current_humidity returned last
    \* ---- the humidity-control switch and the humidifier entity's life ----
    switch,                    \* the switch entity: [added, is_on]
    humidifier_state,          \* the humidifier entity: constructed / added / removed
    \* ---- re-authentication ----
    config_entry,              \* the entry: [entry_id, username, password] (data)
    reauth                     \* the reauth flow: step, context, validated credentials, errors

hvars == <<impl, options, sensor_state, humidity_control_enabled, last_mode_change,
           now, device, data, check_pc, run>>
cvars == <<pc, cursor, setup_complete, api, devices, cloud_clients, modbus_clients,
           controllers, connection_modes, update_interval, states, coordinator_data,
           last_error, product_type, local_ip, cycle, cycles>>
evars == <<sensor_listener, check_tasks, other, target_humidity, call>>
xvars == <<entry_state, humidity_sensors, entities, unload>>
rvars == <<sensor_list, reading>>
svars == <<switch, humidifier_state>>
avars == <<config_entry, reauth>>
yvars == <<rvars, svars, avars>>
vars == <<hvars, cvars, evars, xvars, yvars>>

----------------------------------------------------------------------------
(* Constants of the program *)

\* alnor_sdk VentilationMode values (humidifier.py _attr_available_modes)
VentilationModes == {"standby", "away", "home", "home_plus", "auto", "party"}

DEFAULT_HUMIDITY_HYSTERESIS == 5
DEFAULT_HUMIDITY_COOLDOWN == 60
DEFAULT_HUMIDITY_HIGH_MODE == "home_plus"
DEFAULT_HUMIDITY_LOW_MODE == "home"
HUMIDITY_CONTROL_COOLDOWN_HUMIDIFIER == 60
HUMIDITY_CONTROL_COOLDOWN_CLIMATE == 120
UPPER_CAP == 99
LOWER_CAP == 1
DEFAULT_ON_SPEED == 50
UPDATE_INTERVAL_LOCAL == 30
UPDATE_INTERVAL_CLOUD == 60

\* Python's None for a timestamp, an option key that is not set, and no
\* humidity reading / no threshold computed.
NoTime == -1
Absent == -1
NoHumidity == -1
NoThreshold == -1000
AbsentMode == "absent"
NoMode == "none"
NoState == [mode |-> NoMode, speed |-> 0]

----------------------------------------------------------------------------
(* Bounded inputs of the humidity check *)

Impls == {"mixin", "humidifier", "climate"}

\* (target, hysteresis) as stored in the options; Absent = key not set.
\* 60/default gives the band 55..65; 98/5 and 3/5 reach past 99 and 1.
TargetHysteresisPairs ==
    {<<Absent, Absent>>, <<60, Absent>>, <<98, 5>>, <<3, 5>>, <<50, 20>>}

\* (high_mode, low_mode) as stored in the options.
ModePairs == {<<AbsentMode, AbsentMode>>, <<"party", "standby">>}

CooldownValues == {Absent, 0}

\* Instants at which something happens (seconds since start).
Times == {0, 59, 60}

Max(a, b) == IF a >= b THEN a ELSE b
Min(a, b) == IF a <= b THEN a ELSE b

\* Readings at and next to the band edges of a (target, hysteresis) pair, and
\* the target itself, within 0..100.
ReadingsNear(t, h) ==
    LET lo == Max(t - h, 1)
        hi == Min(t + h, 99)
    IN  {lo - 1, lo, t, hi, hi + 1}

SensorStates ==
    LET t == IF options.target = Absent THEN 60 ELSE options.target
        h == IF options.hysteresis = Absent THEN DEFAULT_HUMIDITY_HYSTERESIS
             ELSE options.hysteresis
    IN  {[kind |-> "unavailable", value |-> 0]}
        \cup {[kind |-> "value", value |-> v] : v \in ReadingsNear(t, h)}

----------------------------------------------------------------------------
(* The humidity check *)

\* The heat recovery unit whose entity runs the check.
Hru == 1

\* _get_current_humidity / current_humidity: the reading of the linked sensor,
\* None when it is unavailable.
get_current_humidity ==
    IF sensor_state.kind = "value" THEN sensor_state.value ELSE NoHumidity

\* options.get(key, default)
OptionsGet(v, default) == IF v = Absent THEN default ELSE v
OptionsGetMode(v, default) == IF v = AbsentMode THEN default ELSE v

\* The per-device configuration as each class reads it.
HumidityConfig(opts) ==
    [hysteresis |-> OptionsGet(opts.hysteresis, DEFAULT_HUMIDITY_HYSTERESIS),
     target     |-> opts.target,
     high_mode  |-> OptionsGetMode(opts.high_mode,
                        IF impl = "climate" THEN "party" ELSE DEFAULT_HUMIDITY_HIGH_MODE),
     low_mode   |-> OptionsGetMode(opts.low_mode, DEFAULT_HUMIDITY_LOW_MODE),
     cooldown   |-> CASE impl = "mixin" ->
                            OptionsGet(opts.cooldown, DEFAULT_HUMIDITY_COOLDOWN)
                      [] impl = "humidifier" ->
                            OptionsGet(opts.cooldown, HUMIDITY_CONTROL_COOLDOWN_HUMIDIFIER)
                      [] OTHER -> HUMIDITY_CONTROL_COOLDOWN_CLIMATE]

\* The configuration the check reads from the stored options.
get_humidity_config == HumidityConfig(options)

\* A cooldown test that also holds while a check is suspended at its
\* awaited call, as if the timestamp were written before the call.
CooldownActiveOrInFlight(cooldown) ==
    \/ check_pc = "await_set_mode"
    \/ /\ last_mode_change # NoTime
       /\ now - last_mode_change < cooldown

\* A faulty cooldown test: the comparison inverted.
CooldownActiveInverted(cooldown) ==
    /\ last_mode_change # NoTime
    /\ now - last_mode_change > cooldown

\* if self._last_mode_change: elapsed = now - last; if elapsed < cooldown: return
CooldownActive(cooldown) ==
    /\ last_mode_change # NoTime
    /\ now - last_mode_change < cooldown

\* upper_threshold / lower_threshold as each class computes them: only the
\* mixin caps them to 1..99.
UpperThreshold(target, hysteresis) ==
    IF impl = "mixin" THEN Min(target + hysteresis, UPPER_CAP) ELSE target + hysteresis

\* A faulty lower threshold: the hysteresis added instead of subtracted.
LowerThresholdAdded(target, hysteresis) == target + hysteresis


LowerThreshold(target, hysteresis) ==
    IF impl = "mixin" THEN Max(target - hysteresis, LOWER_CAP) ELSE target - hysteresis

\* A faulty comparison: not strict.
AboveUpperOrEqual(current, upper) == current >= upper

\* The comparison of the reading with the upper / lower threshold.
AboveUpper(current, upper) == current > upper
\* A faulty lower comparison: a reading on the threshold counts as below it.
BelowLowerOrEqual(current, lower) == current <= lower

BelowLower(current, lower) == current < lower

\* self.mode / self.fan_mode / _get_current_mode: the mode of the last polled
\* state, None without coordinator data.
current_mode == data.mode

\* A faulty decision: the current mode is not looked at.
ModeDecisionIgnoringMode(current, upper, lower, cfg) ==
    IF AboveUpper(current, upper) THEN cfg.high_mode
    ELSE IF BelowLower(current, lower) THEN cfg.low_mode
    ELSE NoMode

\* The if / elif / else at the end of the check: the mode to switch to, or NoMode.
\* The humidifier nests the mode test under the threshold test, so a reading
\* above the upper threshold never reaches the elif.
ModeDecision(current, upper, lower, cfg) ==
    IF impl = "humidifier"
    THEN IF AboveUpper(current, upper)
         THEN (IF current_mode # cfg.high_mode THEN cfg.high_mode ELSE NoMode)
         ELSE IF BelowLower(current, lower) /\ current_mode # cfg.low_mode
              THEN cfg.low_mode
              ELSE NoMode
    ELSE IF AboveUpper(current, upper) /\ current_mode # cfg.high_mode
         THEN cfg.high_mode
         ELSE IF BelowLower(current, lower) /\ current_mode # cfg.low_mode
              THEN cfg.low_mode
              ELSE NoMode

\* A command sent to the device controller.
SetModeCmd(mode) == [op |-> "set_mode", mode |-> mode, speed |-> 0]
SetSpeedCmd(speed) == [op |-> "set_speed", mode |-> NoMode, speed |-> speed]

NoController == "none"
NoSpeed == -1

\* A faulty speed rule: standby always commands speed 0.
SpeedAfterModeAlwaysStops(mode) ==
    IF mode = "standby" THEN 0
    ELSE (IF data # NoState /\ data.speed = 0 THEN DEFAULT_ON_SPEED ELSE NoSpeed)

\* The speed that async_set_mode / async_set_fan_mode commands after a
\* successful set_mode: 0 for standby when the unit runs, 50 for any other
\* mode when the unit is stopped; NoSpeed when it commands none.
SpeedAfterMode(mode) ==
    IF mode = "standby"
    THEN (IF data # NoState /\ data.speed > 0 THEN 0 ELSE NoSpeed)
    ELSE (IF data # NoState /\ data.speed = 0 THEN DEFAULT_ON_SPEED ELSE NoSpeed)

\* async_set_mode (humidifier), async_set_fan_mode (climate) and the mixin's
\* _set_ventilation_mode: the commands sent, the unit's state afterwards and
\* whether a controller call raised. set_ok / speed_ok: whether the
\* controller's set_mode / set_speed succeeds; every failure is logged and
\* swallowed.
SetVentilationMode(mode, set_ok, speed_ok) ==
    IF impl = "mixin"
    THEN [commands |-> <<SetModeCmd(mode)>>,
          device   |-> IF set_ok THEN [device EXCEPT !.mode = mode] ELSE device,
          failed   |-> ~set_ok]
    ELSE IF controllers[Hru] = NoController \/ mode \notin VentilationModes
    THEN [commands |-> <<>>, device |-> device, failed |-> FALSE]
    ELSE IF ~set_ok
    THEN [commands |-> <<SetModeCmd(mode)>>, device |-> device, failed |-> TRUE]
    ELSE LET sp == SpeedAfterMode(mode)
         IN  [commands |-> IF sp = NoSpeed THEN <<SetModeCmd(mode)>>
                           ELSE <<SetModeCmd(mode), SetSpeedCmd(sp)>>,
              device   |-> [mode  |-> mode,
                            speed |-> IF sp # NoSpeed /\ speed_ok THEN sp
                                      ELSE device.speed],
              failed   |-> sp # NoSpeed /\ ~speed_ok]

\* What a check that has not computed or done anything yet has to show.
EmptyRun ==
    [switched_at |-> NoTime, upper_threshold |-> NoThreshold,
     lower_threshold |-> NoThreshold, commands |-> <<>>, failed |-> FALSE]

\* _check_humidity_control up to its awaited mode-set call, on the
\* configuration cfg: the early returns, the cooldown test, the thresholds,
\* the decision and the commands of the mode change. Gives what the check
\* did, the unit afterwards, and whether the check is left suspended at the
\* awaited call (awaits) or has returned.
CheckOutcome(cfg, set_ok, speed_ok) ==
    LET current == get_current_humidity
        nothing == [run |-> EmptyRun, device |-> device, awaits |-> FALSE]
    IN  IF ~humidity_control_enabled
        THEN nothing
        ELSE IF current = NoHumidity \/ cfg.target = Absent
        THEN nothing
        ELSE IF CooldownActive(cfg.cooldown)
        THEN nothing
        ELSE LET upper == UpperThreshold(cfg.target, cfg.hysteresis)
                 lower == LowerThreshold(cfg.target, cfg.hysteresis)
                 mode  == ModeDecision(current, upper, lower, cfg)
                 seen  == [EmptyRun EXCEPT !.upper_threshold = upper,
                                           !.lower_threshold = lower]
             IN  IF mode = NoMode
                 THEN [run |-> seen, device |-> device, awaits |-> FALSE]
                 ELSE LET r == SetVentilationMode(mode, set_ok, speed_ok)
                      IN  [run    |-> [seen EXCEPT !.commands = r.commands,
                                                   !.failed = r.failed],
                           device |-> r.device,
                           awaits |-> TRUE]

\* A check starts and runs up to its awaited mode-set call, or to its return
\* when it changes nothing. check_tasks is left to the caller.
CheckBegin(set_ok, speed_ok) ==
    /\ check_pc = "idle"
    /\ LET o == CheckOutcome(get_humidity_config, set_ok, speed_ok)
       IN  /\ run' = o.run
           /\ device' = o.device
           /\ check_pc' = IF o.awaits THEN "await_set_mode" ELSE check_pc
    /\ UNCHANGED <<impl, options, sensor_state, humidity_control_enabled,
                   last_mode_change, now, data, cvars,
                   sensor_listener, other, target_humidity, call>>

\* A faulty resumption: the time recorded only when no controller call failed.
CheckFinishOnSuccess ==
    /\ check_pc = "await_set_mode"
    /\ last_mode_change' = IF run.failed THEN last_mode_change ELSE now
    /\ run' = [run EXCEPT !.switched_at = now]
    /\ check_pc' = "idle"
    /\ UNCHANGED <<impl, options, sensor_state, humidity_control_enabled,
                   now, device, data, cvars, evars>>

\* The check resumes after the awaited mode-set call and records the time.
CheckFinish ==
    /\ check_pc = "await_set_mode"
    /\ last_mode_change' = now
    /\ run' = [run EXCEPT !.switched_at = now]
    /\ check_pc' = "idle"
    /\ UNCHANGED <<impl, options, sensor_state, humidity_control_enabled,
                   now, device, data, cvars, evars>>

\* Checks created and not yet started that the model keeps at most.
MaxTasks == 1

\* Who starts the check: a task created by enable_humidity_control or by
\* _humidity_sensor_changed (from_task), or the periodic async_update.
StartedBy(from_task) ==
    IF from_task
    THEN check_tasks > 0 /\ check_tasks' = check_tasks - 1
    ELSE UNCHANGED check_tasks

\* One run of the check, from its call to its return or its awaited call.
check_humidity_control ==
    \E set_ok, speed_ok, from_task \in BOOLEAN :
        CheckBegin(set_ok, speed_ok) /\ StartedBy(from_task)

\* A second check starts while the first is suspended at its awaited call:
\* it reads the same attributes and runs up to its own awaited call.
OverlapBegin(set_ok, speed_ok) ==
    /\ check_pc = "await_set_mode"
    /\ other.pc = "idle"
    /\ LET o == CheckOutcome(get_humidity_config, set_ok, speed_ok)
       IN  /\ other' = [pc       |-> IF o.awaits THEN "await_set_mode" ELSE "returned",
                        commands |-> o.run.commands]
           /\ device' = o.device
    /\ UNCHANGED <<impl, options, sensor_state, humidity_control_enabled,
                   last_mode_change, now, data, check_pc, run, cvars,
                   sensor_listener, check_tasks, target_humidity, call>>

NoOther == [pc |-> "idle", commands |-> <<>>]

\* The second check resumes after its awaited call and records the time, or
\* has returned without a mode change and is done.
OverlapFinish ==
    /\ other.pc # "idle"
    /\ last_mode_change' = IF other.pc = "await_set_mode" THEN now
                           ELSE last_mode_change
    /\ other' = NoOther
    /\ UNCHANGED <<impl, options, sensor_state, humidity_control_enabled,
                   now, device, data, check_pc, run, cvars,
                   sensor_listener, check_tasks, target_humidity, call>>

\* A faulty enable: no immediate check.
EnableWithoutCheck ==
    /\ humidity_control_enabled' = TRUE
    /\ sensor_listener' = IF impl = "humidifier" THEN TRUE ELSE sensor_listener
    /\ UNCHANGED <<impl, options, sensor_state, last_mode_change, now, device, data,
                   check_pc, run, cvars, check_tasks, other, target_humidity, call>>

\* enable_humidity_control, which the switch calls on the humidifier entity:
\* the flag, the humidifier's sensor listener (_subscribe_to_sensors) and its
\* immediate check (async_create_task).
enable_humidity_control ==
    /\ humidity_control_enabled' = TRUE
    /\ IF impl = "humidifier"
       THEN /\ check_tasks < MaxTasks
            /\ sensor_listener' = TRUE
            /\ check_tasks' = check_tasks + 1
       ELSE UNCHANGED <<sensor_listener, check_tasks>>
    /\ UNCHANGED <<impl, options, sensor_state, last_mode_change, now, device, data,
                   check_pc, run, cvars, other, target_humidity, call>>

\* disable_humidity_control: the flag and, in the humidifier,
\* _unsubscribe_from_sensors.
disable_humidity_control ==
    /\ humidity_control_enabled' = FALSE
    /\ sensor_listener' = IF impl = "humidifier" THEN FALSE ELSE sensor_listener
    /\ UNCHANGED <<impl, options, sensor_state, last_mode_change, now, device, data,
                   check_pc, run, cvars, check_tasks, other, target_humidity, call>>

\* A faulty handler test: the enabled flag not consulted.
StartsCheckWhenDisabled(s) ==
    /\ sensor_listener
    /\ s.kind \notin {"removed", "unavailable", "unknown"}

\* _humidity_sensor_changed: whether the event with new state s makes the
\* handler create a check. Without the listener the handler is not called.
StartsCheck(s) ==
    /\ sensor_listener
    /\ s.kind \notin {"removed", "unavailable", "unknown"}
    /\ humidity_control_enabled

\* The linked sensor reports a new state; the humidifier's listener, when
\* registered, runs _humidity_sensor_changed.
SensorChange(s) ==
    /\ sensor_state' = s
    /\ IF StartsCheck(s)
       THEN check_tasks < MaxTasks /\ check_tasks' = check_tasks + 1
       ELSE UNCHANGED check_tasks
    /\ UNCHANGED <<impl, options, humidity_control_enabled, last_mode_change, now,
                   device, data, check_pc, run, cvars,
                   sensor_listener, other, target_humidity, call>>

\* A poll cycle ends: coordinator.data holds the unit's state if its read
\* succeeded and nothing for it otherwise.
CoordinatorRefresh(read_ok) ==
    /\ data' = IF read_ok THEN device ELSE NoState
    /\ UNCHANGED <<impl, options, sensor_state, humidity_control_enabled,
                   last_mode_change, now, device, check_pc, run, cvars, evars>>

NoCall == [op |-> "none", mode |-> NoMode, humidity |-> Absent, commands |-> <<>>]

\* A faulty range test of the target.
ValidHumidityUnbounded(humidity) == 0 <= humidity

\* if not 0 <= humidity <= 100: return
ValidHumidity(humidity) == 0 <= humidity /\ humidity <= 100

\* A faulty write of the options: a new dict holding the target key alone.
NewOptionsOnlyTarget(opts, humidity) ==
    [target |-> humidity, hysteresis |-> Absent, high_mode |-> AbsentMode,
     low_mode |-> AbsentMode, cooldown |-> Absent]

\* new_options = dict(self.coordinator.config_entry.options);
\* new_options[target_key] = humidity
NewOptions(opts, humidity) == [opts EXCEPT !.target = humidity]

\* async_set_humidity of the humidifier and the climate entity: the range
\* test, the cached target (humidifier), the stored option and, with control
\* enabled, the check on the new options up to its awaited call.
async_set_humidity(humidity, set_ok, speed_ok) ==
    /\ impl # "mixin"
    /\ check_pc = "idle"
    /\ call' = [NoCall EXCEPT !.op = "set_humidity", !.humidity = humidity]
    /\ IF ~ValidHumidity(humidity)
       THEN UNCHANGED <<options, target_humidity, run, device, check_pc>>
       ELSE LET new_options == NewOptions(options, humidity)
                o == IF humidity_control_enabled
                     THEN CheckOutcome(HumidityConfig(new_options), set_ok, speed_ok)
                     ELSE [run |-> run, device |-> device, awaits |-> FALSE]
            IN  /\ target_humidity' = IF impl = "humidifier" THEN humidity
                                      ELSE target_humidity
                /\ options' = new_options
                /\ run' = o.run
                /\ device' = o.device
                /\ check_pc' = IF o.awaits THEN "await_set_mode" ELSE check_pc
    /\ UNCHANGED <<impl, sensor_state, humidity_control_enabled, last_mode_change,
                   now, data, cvars, sensor_listener, check_tasks, other>>

\* async_set_mode (humidifier) / async_set_fan_mode (climate) called by the
\* user with a mode string.
async_set_mode(mode, set_ok, speed_ok) ==
    /\ impl # "mixin"
    /\ LET r == SetVentilationMode(mode, set_ok, speed_ok)
       IN  /\ device' = r.device
           /\ call' = [NoCall EXCEPT !.op = "set_mode", !.mode = mode,
                                     !.commands = r.commands]
    /\ UNCHANGED <<impl, options, sensor_state, humidity_control_enabled,
                   last_mode_change, now, data, check_pc, run, cvars,
                   sensor_listener, check_tasks, other, target_humidity>>

\* Time passes.
Tick(t) ==
    /\ t > now
    /\ now' = t
    /\ UNCHANGED <<impl, options, sensor_state, humidity_control_enabled,
                   last_mode_change, device, data, check_pc, run, cvars, evars>>

----------------------------------------------------------------------------
(* The coordinator: setup, polling and local-to-cloud fallback *)

\* Devices the cloud reports, in discovery order 1..NumDevices.
NumDevices == 2
\* Refreshes one behaviour runs.
MaxCycles == 3

Devices == 1..NumDevices

\* What ProductType.from_product_id gives for a device: a heat recovery unit,
\* an exhaust fan, a sensor, a product type _create_controller has no
\* controller for (HRU_PREMAIR_500, which sensor.py names, and "OTHER", which
\* no platform names), or None for an unknown product id ("UNKNOWN").
ProductTypes == {"HEAT_RECOVERY_UNIT", "EXHAUST_FAN", "CO2_SENSOR_VMI", "HRU_PREMAIR_500",
                 "OTHER", "UNKNOWN"}

NoLog == [connect |-> [d \in Devices |-> "none"],
          builds  |-> [d \in Devices |-> <<>>],
          reads   |-> [d \in Devices |-> <<>>]]

\* _create_controller: the controller class for a product type, "None" if
\* there is none.
CreateController(ptype) ==
    CASE ptype = "HEAT_RECOVERY_UNIT" -> "HeatRecoveryUnitController"
      [] ptype = "EXHAUST_FAN" -> "ExhaustFanController"
      [] ptype \in {"CO2_SENSOR_VMI", "CO2_SENSOR_VMS", "HUMIDITY_SENSOR_VMI",
                    "HUMIDITY_SENSOR_VMS"} -> "SensorController"
      [] OTHER -> "None"

\* A faulty guard: setup on every refresh.
NeedsSetupAlways == TRUE

\* if not self._setup_complete
NeedsSetup == ~setup_complete

\* _async_update_data is called: setup first if it has not completed, then
\* the poll loop over self.controllers.
RefreshBegin ==
    /\ pc = "idle"
    /\ cycles < MaxCycles
    /\ cycles' = cycles + 1
    /\ cycle' = NoLog
    /\ states' = {}
    /\ cursor' = 1
    /\ pc' = IF NeedsSetup THEN "connect" ELSE "poll"
    /\ UNCHANGED <<setup_complete, api, devices, cloud_clients, modbus_clients,
                   controllers, connection_modes, update_interval, coordinator_data,
                   last_error, product_type, local_ip, hvars, evars>>

\* A faulty except clause: every connect failure an update failure.
ConnectErrorGeneric(outcome) == "update_failed"

\* The except clauses around api.connect: CloudAuthenticationError raises
\* ConfigEntryAuthFailed, any other exception UpdateFailed.
ConnectError(outcome) == IF outcome = "auth" THEN "auth_failed" ELSE "update_failed"

\* _async_setup: self.api = AlnorCloudApi(); await self.api.connect(...).
\* outcome: ok, auth (CloudAuthenticationError) or error (anything else).
\* Setup runs inside the first refresh only, so its exception leaves
\* async_config_entry_first_refresh and async_setup_entry: the coordinator is
\* never stored and is not refreshed again ("failed").
ApiConnect(outcome) ==
    /\ pc = "connect"
    /\ api' = IF outcome = "ok" THEN "connected" ELSE "created"
    /\ pc' = IF outcome = "ok" THEN "discover" ELSE "failed"
    /\ last_error' = IF outcome = "ok" THEN last_error ELSE ConnectError(outcome)
    /\ UNCHANGED <<cursor, setup_complete, devices, cloud_clients, modbus_clients,
                   controllers, connection_modes, update_interval, states,
                   coordinator_data, product_type, local_ip, cycle, cycles, hvars, evars>>

\* get_bridges / get_devices (or anything else inside the discovery try block)
\* raises before the next device is set up: UpdateFailed.
DiscoveryFails ==
    /\ pc = "discover"
    /\ cursor <= NumDevices
    /\ pc' = "failed"
    /\ last_error' = "update_failed"
    /\ UNCHANGED <<cursor, setup_complete, api, devices, cloud_clients, modbus_clients,
                   controllers, connection_modes, update_interval, states,
                   coordinator_data, product_type, local_ip, cycle, cycles, hvars, evars>>

\* A faulty choice of client: the outcome of the local connect ignored.
ClientForIgnoringFailure(d, connect_ok) == IF local_ip[d] THEN "local" ELSE "cloud"

\* The client _setup_device_connection ends up with: the Modbus client when a
\* local address is known and the connection succeeds, else a cloud client.
ClientFor(d, connect_ok) == IF local_ip[d] /\ connect_ok THEN "local" ELSE "cloud"

\* One iteration of the discovery loop: the device is skipped when its product
\* id is unknown, else stored and connected by _setup_device_connection.
SetupDevice(connect_ok) ==
    /\ pc = "discover"
    /\ cursor <= NumDevices
    /\ LET d == cursor
           kind == ClientFor(d, connect_ok)
           built == CreateController(product_type[d]) # "None"
       IN  IF product_type[d] = "UNKNOWN"
           THEN UNCHANGED <<devices, cloud_clients, modbus_clients, controllers,
                            connection_modes, cycle>>
           ELSE /\ devices' = devices \cup {d}
                /\ modbus_clients' = IF kind = "local" THEN modbus_clients \cup {d}
                                     ELSE modbus_clients
                /\ IF kind = "cloud" /\ api = "none"
                   THEN \* API not initialized: return
                        /\ UNCHANGED <<cloud_clients, controllers, connection_modes>>
                        /\ cycle' = [cycle EXCEPT !.connect[d] =
                                        IF local_ip[d] THEN "failed" ELSE "none"]
                   ELSE /\ cloud_clients' = IF kind = "cloud" THEN cloud_clients \cup {d}
                                            ELSE cloud_clients
                        /\ controllers' = IF built THEN [controllers EXCEPT ![d] = kind]
                                          ELSE controllers
                        /\ connection_modes' =
                               IF built THEN [connection_modes EXCEPT ![d] = kind]
                               ELSE connection_modes
                        /\ cycle' = [cycle EXCEPT
                               !.connect[d] = IF ~local_ip[d] THEN "none"
                                              ELSE IF connect_ok THEN "ok" ELSE "failed",
                               !.builds[d] = IF built THEN Append(@, kind) ELSE @]
    /\ cursor' = cursor + 1
    /\ UNCHANGED <<pc, setup_complete, api, update_interval, states, coordinator_data,
                   last_error, product_type, local_ip, cycles, hvars, evars>>

\* _async_setup returns: self._setup_complete = True, states = {}.
SetupEnd ==
    /\ pc = "discover"
    /\ cursor > NumDevices
    /\ setup_complete' = TRUE
    /\ pc' = "poll"
    /\ cursor' = 1
    /\ UNCHANGED <<api, devices, cloud_clients, modbus_clients, controllers,
                   connection_modes, update_interval, states, coordinator_data,
                   last_error, product_type, local_ip, cycle, cycles, hvars, evars>>

\* A faulty fallback test: the device's cloud client not looked for.
CanFallBackWithoutClient(d) ==
    /\ connection_modes[d] = "local"
    /\ CreateController(product_type[d]) # "None"

\* Whether the except branch of the poll loop switches the device to cloud:
\* only a device in local mode that has a cloud client and a controller class.
CanFallBack(d) ==
    /\ connection_modes[d] = "local"
    /\ d \in cloud_clients
    /\ CreateController(product_type[d]) # "None"

\* One iteration of the poll loop. A device without a controller is not in
\* self.controllers and is passed over. read_ok: whether get_state succeeds;
\* cloud_ok: whether the retry through the cloud controller succeeds.
PollDevice(read_ok, cloud_ok) ==
    /\ pc = "poll"
    /\ cursor <= NumDevices
    /\ LET d == cursor
           first == [via |-> controllers[d], ok |-> read_ok]
           retry == [via |-> "cloud", ok |-> cloud_ok]
       IN  IF controllers[d] = NoController
           THEN UNCHANGED <<controllers, connection_modes, states, cycle>>
           ELSE IF read_ok
           THEN /\ states' = states \cup {d}
                /\ cycle' = [cycle EXCEPT !.reads[d] = Append(@, first)]
                /\ UNCHANGED <<controllers, connection_modes>>
           ELSE IF CanFallBack(d)
           THEN /\ controllers' = [controllers EXCEPT ![d] = "cloud"]
                /\ connection_modes' = [connection_modes EXCEPT ![d] = "cloud"]
                /\ cycle' = [cycle EXCEPT !.reads[d] = Append(Append(@, first), retry),
                                          !.builds[d] = Append(@, "cloud")]
                /\ states' = IF cloud_ok THEN states \cup {d} ELSE states
           ELSE /\ cycle' = [cycle EXCEPT !.reads[d] = Append(@, first)]
                /\ UNCHANGED <<controllers, connection_modes, states>>
    /\ cursor' = cursor + 1
    /\ UNCHANGED <<pc, setup_complete, api, devices, cloud_clients, modbus_clients,
                   update_interval, coordinator_data, last_error, product_type,
                   local_ip, cycles, hvars, evars>>

\* A faulty interval: the short one only when every device is local.
NextIntervalAllLocal(modes) ==
    IF \A d \in Devices : modes[d] = "local" THEN UPDATE_INTERVAL_LOCAL
    ELSE UPDATE_INTERVAL_CLOUD

\* The interval chosen at the end of a poll cycle.
NextInterval(modes) ==
    IF \E d \in Devices : modes[d] = "local" THEN UPDATE_INTERVAL_LOCAL
    ELSE UPDATE_INTERVAL_CLOUD

\* The poll loop is over: the interval is adjusted and states is returned,
\* which the framework stores as coordinator.data.
RefreshEnd ==
    /\ pc = "poll"
    /\ cursor > NumDevices
    /\ update_interval' = NextInterval(connection_modes)
    /\ coordinator_data' = states
    /\ last_error' = "ok"
    /\ pc' = "idle"
    /\ UNCHANGED <<cursor, setup_complete, api, devices, cloud_clients, modbus_clients,
                   controllers, connection_modes, states, product_type, local_ip,
                   cycle, cycles, hvars, evars>>

\* A faulty availability: the device's presence in the data ignored.
availableWithoutData(d) == last_error = "ok"

\* AlnorEntity.available: the last refresh succeeded and the device is in its result.
available(d) == last_error = "ok" /\ d \in coordinator_data

----------------------------------------------------------------------------
(* The config entry: platforms and unloading *)

\* const.py PLATFORMS
PLATFORMS == {"fan", "climate", "humidifier", "sensor", "binary_sensor", "button", "switch"}

\* The product types named by the sensor descriptions of sensor.py.
SensorProductTypes ==
    {"HRU_PREMAIR_450", "HRU_PREMAIR_500", "VMC_02VJ04", "VMC_EXHAUST_FAN",
     "VMS_02C05", "SENSOR_CO2", "VMI_02MC02", "SENSOR_HUMIDITY"}

\* async_setup_entry of each platform, for one device of coordinator.devices:
\* whether the platform adds an entity for it.
AddsEntity(platform, d) ==
    CASE platform = "sensor" -> product_type[d] \in SensorProductTypes
      [] platform = "binary_sensor" ->
            product_type[d] \in {"HEAT_RECOVERY_UNIT", "EXHAUST_FAN"}
      [] platform = "button" ->
            product_type[d] = "HEAT_RECOVERY_UNIT" /\ controllers[d] # NoController
      [] platform = "fan" ->
            product_type[d] = "EXHAUST_FAN" /\ controllers[d] # NoController
      [] platform = "climate" -> product_type[d] = "HEAT_RECOVERY_UNIT"
      [] platform \in {"humidifier", "switch"} ->
            product_type[d] = "HEAT_RECOVERY_UNIT" /\ humidity_sensors[d]
      [] OTHER -> FALSE

\* The entities all platforms add, from coordinator.devices.
CreatedEntities == {e \in PLATFORMS \X devices : AddsEntity(e[1], e[2])}

NoUnload == [cursor |-> 1, calls |-> {}, closed |-> {}, api |-> "none"]

\* async_setup_entry after the first refresh has succeeded: the coordinator is
\* stored and the platforms are set up.
async_forward_entry_setups ==
    /\ entry_state = "setup"
    /\ pc = "idle"
    /\ last_error = "ok"
    /\ entities' = CreatedEntities
    /\ entry_state' = "loaded"
    /\ UNCHANGED <<hvars, cvars, evars, humidity_sensors, unload, yvars>>

\* async_unload_entry: the platforms are unloaded; unload_ok is what
\* async_unload_platforms returns. Only if it is true is the coordinator
\* removed and the loop over modbus_clients entered.
async_unload_entry(unload_ok) ==
    /\ entry_state = "loaded"
    /\ pc = "idle"
    /\ entry_state' = IF unload_ok THEN "unloading" ELSE "unload_failed"
    /\ entities' = IF unload_ok THEN {} ELSE entities
    /\ UNCHANGED <<hvars, cvars, evars, humidity_sensors, unload, yvars>>

\* A faulty loop body: an error of disconnect ends the loop.
DisconnectModbusStopping(disconnect_ok) ==
    /\ entry_state = "unloading"
    /\ unload.cursor <= NumDevices
    /\ LET d == unload.cursor
       IN  unload' = IF d \in modbus_clients
                     THEN [unload EXCEPT
                              !.cursor = IF disconnect_ok THEN d + 1 ELSE NumDevices + 1,
                              !.calls = @ \cup {d},
                              !.closed = IF disconnect_ok THEN @ \cup {d} ELSE @]
                     ELSE [unload EXCEPT !.cursor = d + 1]
    /\ UNCHANGED <<hvars, cvars, evars, entry_state, humidity_sensors, entities, yvars>>

\* One iteration of the loop over coordinator.modbus_clients: disconnect is
\* called; an exception is logged and the loop goes on.
DisconnectModbus(disconnect_ok) ==
    /\ entry_state = "unloading"
    /\ unload.cursor <= NumDevices
    /\ LET d == unload.cursor
       IN  unload' = IF d \in modbus_clients
                     THEN [unload EXCEPT !.cursor = d + 1,
                                         !.calls = @ \cup {d},
                                         !.closed = IF disconnect_ok THEN @ \cup {d} ELSE @]
                     ELSE [unload EXCEPT !.cursor = d + 1]
    /\ UNCHANGED <<hvars, cvars, evars, entry_state, humidity_sensors, entities, yvars>>

\* After the loop: coordinator.api.disconnect() if there is an api, its
\* exception logged; async_unload_entry returns.
DisconnectApi(disconnect_ok) ==
    /\ entry_state = "unloading"
    /\ unload.cursor > NumDevices
    /\ unload' = [unload EXCEPT !.api = IF api = "none" THEN "none"
                                        ELSE IF disconnect_ok THEN "closed" ELSE "failed"]
    /\ entry_state' = "unloaded"
    /\ UNCHANGED <<hvars, cvars, evars, humidity_sensors, entities, yvars>>

----------------------------------------------------------------------------
(* The humidity reading over several sensors *)

\* Sensors the model configures at most.
MaxSensors == 2

\* What hass.states holds for a sensor: no state ("removed"), unavailable,
\* unknown, a text that float() rejects ("text"), "inf", which float()
\* accepts and int() rejects with OverflowError, or a number, kept in tenths.
SensorReports ==
    {[kind |-> k, tenths |-> 0] : k \in {"removed", "unavailable", "unknown", "text", "inf"}}
    \cup {[kind |-> "number", tenths |-> v] : v \in {0 - 5, 659, 700}}

\* int(float(state)) of a number: the fraction is cut off, towards zero.
IntOfFloat(tenths) == IF tenths >= 0 THEN tenths \div 10 ELSE 0 - ((0 - tenths) \div 10)

NotRead == [status |-> "not_read", value |-> 0]

\* The loop of current_humidity / _get_current_humidity from sensor i on, with
\* the values collected so far: a sensor without a usable state is passed
\* over, ValueError and TypeError are caught, any other exception leaves the
\* function; at the end the maximum, or None when nothing was collected.
RECURSIVE HumidityLoop(_, _, _)
HumidityLoop(list, i, values) ==
    IF i > Len(list)
    THEN IF values = {} THEN [status |-> "none", value |-> 0]
         ELSE [status |-> "value",
               value |-> CHOOSE v \in values : \A w \in values : w <= v]
    ELSE LET s == list[i]
         IN  IF s.kind \in {"removed", "unavailable", "unknown", "text"}
             THEN HumidityLoop(list, i + 1, values)
             ELSE IF s.kind = "inf"
             THEN [status |-> "raised", value |-> 0]
             ELSE HumidityLoop(list, i + 1, values \cup {IntOfFloat(s.tenths)})

\* current_humidity (humidifier, climate) and _get_current_humidity (mixin).
current_humidity(list) ==
    IF list = <<>> THEN [status |-> "none", value |-> 0]
    ELSE HumidityLoop(list, 1, {})

\* The property is read.
ReadHumidity ==
    /\ reading' = current_humidity(sensor_list)
    /\ UNCHANGED <<hvars, cvars, evars, xvars, sensor_list, svars, avars>>

\* One of the configured sensors reports a new state.
SensorReport(i, s) ==
    /\ i \in 1..Len(sensor_list)
    /\ sensor_list' = [sensor_list EXCEPT ![i] = s]
    /\ reading' = NotRead
    /\ UNCHANGED <<hvars, cvars, evars, xvars, svars, avars>>

\* No sensor list is looked at.
ReadingIdle == sensor_list = <<>> /\ reading = NotRead

----------------------------------------------------------------------------
(* The check with each controller call as a step of its own *)

\* _check_humidity_control up to 'await controller.set_mode(...)' inside
\* async_set_mode: the decision as in CheckOutcome; when a mode change is
\* decided and the controller and the mode exist, set_mode is issued and the
\* check is suspended at that call.
CheckIssuesSetMode ==
    /\ check_pc = "idle"
    /\ LET o == CheckOutcome(get_humidity_config, TRUE, TRUE)
       IN  /\ o.run.commands # <<>>
           /\ run' = [o.run EXCEPT !.commands = <<o.run.commands[1]>>]
    /\ check_pc' = "await_set_mode"
    /\ \E from_task \in BOOLEAN : StartedBy(from_task)
    /\ UNCHANGED <<impl, options, sensor_state, humidity_control_enabled,
                   last_mode_change, now, device, data, cvars,
                   sensor_listener, other, target_humidity, call>>

\* controller.set_mode returns or raises. When it returns, the last polled
\* state is read and set_speed is issued if SpeedAfterMode asks for it, which
\* suspends the check again; otherwise the check records the time and returns.
SetModeReturns(set_ok) ==
    /\ check_pc = "await_set_mode"
    /\ LET mode == run.commands[1].mode
           sp == SpeedAfterMode(mode)
       IN  IF set_ok /\ sp # NoSpeed
           THEN /\ device' = [device EXCEPT !.mode = mode]
                /\ run' = [run EXCEPT !.commands = Append(@, SetSpeedCmd(sp))]
                /\ check_pc' = "await_set_speed"
                /\ UNCHANGED last_mode_change
           ELSE /\ device' = IF set_ok THEN [device EXCEPT !.mode = mode] ELSE device
                /\ run' = [run EXCEPT !.switched_at = now, !.failed = ~set_ok]
                /\ check_pc' = "idle"
                /\ last_mode_change' = now
    /\ UNCHANGED <<impl, options, sensor_state, humidity_control_enabled,
                   now, data, cvars, evars>>

\* controller.set_speed returns or raises; the check records the time and
\* returns.
SetSpeedReturns(speed_ok) ==
    /\ check_pc = "await_set_speed"
    /\ device' = IF speed_ok THEN [device EXCEPT !.speed = run.commands[2].speed]
                 ELSE device
    /\ run' = [run EXCEPT !.switched_at = now, !.failed = ~speed_ok]
    /\ check_pc' = "idle"
    /\ last_mode_change' = now
    /\ UNCHANGED <<impl, options, sensor_state, humidity_control_enabled,
                   now, data, cvars, evars>>

----------------------------------------------------------------------------
(* The humidity-control switch and the life of the humidifier entity *)

\* AlnorHumidityControlSwitch.__init__: self._is_on = True.
SwitchConstructed == [added |-> FALSE, is_on |-> TRUE]

\* _update_humidity_entity: the humidifier entity of the device is looked up
\* among the entities of the humidifier component and its enable / disable
\* method is called; when none is found only a warning is logged.
update_humidity_entity(enable) ==
    IF humidifier_state = "added"
    THEN IF enable THEN enable_humidity_control ELSE disable_humidity_control
    ELSE UNCHANGED <<hvars, cvars, evars>>

\* The value of _is_on after the restore: the default when there is no last
\* state, else whether the last state was on.
RestoredIsOn(last_state) ==
    IF last_state = "none" THEN SwitchConstructed.is_on ELSE last_state = "on"

\* The switch's async_added_to_hass: the last state is restored and, if the
\* switch is on, control is enabled on the humidifier entity.
SwitchAddedToHass(last_state) ==
    /\ ~switch.added
    /\ switch' = [added |-> TRUE, is_on |-> RestoredIsOn(last_state)]
    /\ IF RestoredIsOn(last_state) THEN update_humidity_entity(TRUE)
       ELSE UNCHANGED <<hvars, cvars, evars>>
    /\ UNCHANGED <<xvars, rvars, avars, humidifier_state>>

\* The switch's async_turn_on and async_turn_off.
async_turn_on ==
    /\ switch.added
    /\ switch' = [switch EXCEPT !.is_on = TRUE]
    /\ update_humidity_entity(TRUE)
    /\ UNCHANGED <<xvars, rvars, avars, humidifier_state>>

async_turn_off ==
    /\ switch.added
    /\ switch' = [switch EXCEPT !.is_on = FALSE]
    /\ update_humidity_entity(FALSE)
    /\ UNCHANGED <<xvars, rvars, avars, humidifier_state>>

\* The humidifier's async_added_to_hass: it subscribes to its sensors (a no-op
\* when it is subscribed already).
HumidifierAddedToHass ==
    /\ humidifier_state = "constructed"
    /\ humidifier_state' = "added"
    /\ sensor_listener' = TRUE
    /\ UNCHANGED <<hvars, cvars, check_tasks, other, target_humidity, call,
                   xvars, rvars, avars, switch>>

\* The humidifier's async_will_remove_from_hass: it unsubscribes.
HumidifierRemoved ==
    /\ humidifier_state = "added"
    /\ check_pc = "idle"
    /\ humidifier_state' = "removed"
    /\ sensor_listener' = FALSE
    /\ UNCHANGED <<hvars, cvars, check_tasks, other, target_humidity, call,
                   xvars, rvars, avars, switch>>

\* The switch is not looked at; the humidifier entity is added.
SwitchIdle == switch = SwitchConstructed /\ humidifier_state = "added"

----------------------------------------------------------------------------
(* Re-authentication *)

\* Entry ids as the framework generates them, account names and passwords.
EntryIds == {"01JA", "01JB"}
Usernames == {"anna@example.com", "ben@example.com"}
Passwords == {"p1", "p2", "p3"}

NoCredentials == [username |-> "", password |-> ""]

\* No reauth flow: no step, no context, nothing validated.
NoReauth ==
    [step |-> "none", entry_id |-> "", validated |-> NoCredentials,
     errors |-> "none", reload_scheduled |-> FALSE]

\* async_step_reauth: the framework starts the flow for the entry whose
\* refresh raised ConfigEntryAuthFailed, with the entry's id in the flow's
\* context; the step shows the password form.
async_step_reauth ==
    /\ last_error = "auth_failed"
    /\ reauth.step \in {"none", "done"}
    /\ reauth' = [NoReauth EXCEPT !.step = "reauth_confirm",
                                  !.entry_id = config_entry.entry_id]
    /\ UNCHANGED <<hvars, cvars, evars, xvars, rvars, svars, config_entry>>

\* username=self.context["entry_id"]
ReauthUsername == reauth.entry_id

\* async_step_reauth_confirm with the password the user entered. outcome is
\* what api.connect does with the credentials: ok, auth
\* (CloudAuthenticationError) or error (anything else). On ok
\* async_update_reload_and_abort stores the data and schedules a reload of
\* the entry; otherwise the form is shown again with the error.
async_step_reauth_confirm(password, outcome) ==
    /\ reauth.step = "reauth_confirm"
    /\ reauth' = [reauth EXCEPT
           !.validated = [username |-> ReauthUsername, password |-> password],
           !.errors = CASE outcome = "ok" -> "none"
                        [] outcome = "auth" -> "invalid_auth"
                        [] OTHER -> "cannot_connect",
           !.step = IF outcome = "ok" THEN "done" ELSE "reauth_confirm",
           !.reload_scheduled = (outcome = "ok")]
    /\ config_entry' = IF outcome = "ok"
                       THEN [config_entry EXCEPT !.username = ReauthUsername,
                                                 !.password = password]
                       ELSE config_entry
    /\ UNCHANGED <<hvars, cvars, evars, xvars, rvars, svars>>

ReauthIdle ==
    /\ config_entry = [entry_id |-> "01JA", username |-> "anna@example.com",
                       password |-> "p1"]
    /\ reauth = NoReauth

\* The parts of the model a specification does not run.
ElsewhereIdle == ReadingIdle /\ SwitchIdle /\ ReauthIdle

----------------------------------------------------------------------------
(* Specifications *)

\* The entry of a coordinator that is set up: loaded, with the entities the
\* platforms added; the unit has humidity sensors configured.
EntryLoaded ==
    /\ entry_state = "loaded"
    /\ humidity_sensors = [d \in Devices |-> TRUE]
    /\ entities = CreatedEntities
    /\ unload = NoUnload
    /\ ElsewhereIdle

\* The entry while async_setup_entry runs its first refresh.
EntrySetup ==
    /\ entry_state = "setup"
    /\ humidity_sensors \in [Devices -> BOOLEAN]
    /\ entities = {}
    /\ unload = NoUnload
    /\ ElsewhereIdle

\* The coordinator before its first refresh (__init__).
CoordinatorInit ==
    /\ pc = "idle"
    /\ cursor = 1
    /\ setup_complete = FALSE
    /\ api = "none"
    /\ devices = {}
    /\ cloud_clients = {}
    /\ modbus_clients = {}
    /\ controllers = [d \in Devices |-> NoController]
    /\ connection_modes = [d \in Devices |-> "none"]
    /\ update_interval = UPDATE_INTERVAL_CLOUD
    /\ states = {}
    /\ coordinator_data = {}
    /\ last_error = "none"
    /\ cycle = NoLog
    /\ cycles = 0

\* The coordinator after a first refresh that found heat recovery units only
\* and connected them through the cloud.
CoordinatorReady ==
    /\ pc = "idle"
    /\ cursor = NumDevices + 1
    /\ setup_complete = TRUE
    /\ api = "connected"
    /\ devices = Devices
    /\ cloud_clients = Devices
    /\ modbus_clients = {}
    /\ controllers = [d \in Devices |-> "cloud"]
    /\ connection_modes = [d \in Devices |-> "cloud"]
    /\ update_interval = UPDATE_INTERVAL_CLOUD
    /\ states = Devices
    /\ coordinator_data = Devices
    /\ last_error = "ok"
    /\ product_type = [d \in Devices |-> "HEAT_RECOVERY_UNIT"]
    /\ local_ip = [d \in Devices |-> FALSE]
    /\ cycle = NoLog
    /\ cycles = 1

\* What __init__ and async_added_to_hass leave in the entity, whatever the
\* options are: no check, no mode change, control disabled, the target cached
\* (humidifier) and the sensor listener registered (humidifier).
EntityConstructed ==
    /\ sensor_listener = (impl = "humidifier")
    /\ check_tasks = 0
    /\ other = NoOther
    /\ target_humidity = IF impl = "humidifier" THEN options.target ELSE Absent
    /\ call = NoCall

\* The entity as constructed (__init__), before any check.
EntityInit ==
    /\ impl \in Impls
    /\ \E th \in TargetHysteresisPairs, m \in ModePairs, c \in CooldownValues :
          options = [target |-> th[1], hysteresis |-> th[2], high_mode |-> m[1],
                     low_mode |-> m[2], cooldown |-> c]
    /\ EntityConstructed
    /\ sensor_state = [kind |-> "unavailable", value |-> 0]
    /\ humidity_control_enabled = FALSE
    /\ last_mode_change = NoTime
    /\ now = 0
    /\ device = [mode |-> "home", speed |-> DEFAULT_ON_SPEED]
    /\ data = device
    /\ check_pc = "idle"
    /\ run = EmptyRun

\* Humidity control of one heat recovery unit.
HumidityInit == EntityInit /\ CoordinatorReady /\ EntryLoaded

HumidityNext ==
    \/ check_humidity_control
    \/ CheckFinish
    \/ enable_humidity_control
    \/ disable_humidity_control
    \/ \E s \in SensorStates : SensorChange(s)
    \/ \E read_ok \in BOOLEAN : CoordinatorRefresh(read_ok)
    \/ \E t \in Times : Tick(t)

SpecHumidity == HumidityInit /\ [][HumidityNext /\ UNCHANGED <<xvars, yvars>>]_vars

\* Mode strings a user passes to async_set_mode / async_set_fan_mode, one of
\* them no ventilation mode; targets passed to async_set_humidity, two of
\* them out of range; states a sensor event can carry.
ManualModes == {"standby", "home", "bogus"}
Humidities == {0 - 1, 60, 101}
SensorEvents ==
    {[kind |-> k, value |-> 0] : k \in {"unavailable", "unknown", "removed"}}
    \cup {[kind |-> "value", value |-> v] : v \in {60, 66}}
LaterTimes == {60}

\* The humidifier or the climate entity of one heat recovery unit, with the
\* documented example configuration (target 60 or none, band 55..65,
\* party / standby, cooldown 60 s).
EntityInitExample ==
    /\ impl \in {"humidifier", "climate"}
    /\ \E t \in {Absent, 60} :
          options = [target |-> t, hysteresis |-> Absent, high_mode |-> "party",
                     low_mode |-> "standby", cooldown |-> Absent]
    /\ EntityConstructed
    /\ sensor_state = [kind |-> "unavailable", value |-> 0]
    /\ humidity_control_enabled = FALSE
    /\ last_mode_change = NoTime
    /\ now = 0
    /\ device = [mode |-> "home", speed |-> DEFAULT_ON_SPEED]
    /\ data = device
    /\ check_pc = "idle"
    /\ run = EmptyRun

EntityNext ==
    \/ check_humidity_control
    \/ CheckFinish
    \/ \E set_ok, speed_ok \in BOOLEAN : OverlapBegin(set_ok, speed_ok)
    \/ OverlapFinish
    \/ enable_humidity_control
    \/ disable_humidity_control
    \/ \E s \in SensorEvents : SensorChange(s)
    \/ \E read_ok \in BOOLEAN : CoordinatorRefresh(read_ok)
    \/ \E t \in LaterTimes : Tick(t)

\* The entity with its listener, its check tasks and overlapping checks.
EntityInitWithTarget ==
    EntityInitExample /\ options.target = 60 /\ CoordinatorReady /\ EntryLoaded
SpecEntity == EntityInitWithTarget /\ [][EntityNext /\ UNCHANGED <<xvars, yvars>>]_vars

SettersNext ==
    \/ check_humidity_control
    \/ CheckFinish
    \/ enable_humidity_control
    \/ disable_humidity_control
    \/ \E s \in SensorEvents : SensorChange(s)
    \/ \E h \in Humidities, set_ok, speed_ok \in BOOLEAN :
          async_set_humidity(h, set_ok, speed_ok)
    \/ \E m \in ManualModes, set_ok, speed_ok \in BOOLEAN :
          async_set_mode(m, set_ok, speed_ok)
    \/ \E read_ok \in BOOLEAN : CoordinatorRefresh(read_ok)
    \/ \E t \in LaterTimes : Tick(t)

\* The entity with its setters, called by the user.
SettersInit == EntityInitExample /\ CoordinatorReady /\ EntryLoaded
SpecSetters == SettersInit /\ [][SettersNext /\ UNCHANGED <<xvars, yvars>>]_vars

\* Targets a user enters in the humidity form of the options flow.
FormTargets == {50, 60}

\* async_step_humidity_config of the options flow, submitted for the unit:
\* the form shows each key with its stored value or its default, the user
\* enters a target, and async_create_entry stores the keys of the form as
\* the entry's options.  No update listener is registered, so the entities
\* are not reloaded and no method of theirs is called.
async_step_humidity_config(target) ==
    /\ entry_state = "loaded"
    /\ humidity_sensors[Hru]
    /\ options' = [target     |-> target,
                   hysteresis |-> OptionsGet(options.hysteresis,
                                             DEFAULT_HUMIDITY_HYSTERESIS),
                   high_mode  |-> OptionsGetMode(options.high_mode,
                                                 DEFAULT_HUMIDITY_HIGH_MODE),
                   low_mode   |-> OptionsGetMode(options.low_mode,
                                                 DEFAULT_HUMIDITY_LOW_MODE),
                   cooldown   |-> OptionsGet(options.cooldown,
                                             DEFAULT_HUMIDITY_COOLDOWN)]
    /\ call' = [NoCall EXCEPT !.op = "options_flow", !.humidity = target]
    /\ UNCHANGED <<impl, sensor_state, humidity_control_enabled, last_mode_change,
                   now, device, data, check_pc, run, cvars, sensor_listener,
                   check_tasks, other, target_humidity>>

OptionsNext ==
    \/ check_humidity_control
    \/ CheckFinish
    \/ enable_humidity_control
    \/ disable_humidity_control
    \/ \E s \in SensorEvents : SensorChange(s)
    \/ \E h \in Humidities, set_ok, speed_ok \in BOOLEAN :
          async_set_humidity(h, set_ok, speed_ok)
    \/ \E t \in FormTargets : async_step_humidity_config(t)

\* The humidifier entity with its setters and the options flow.
OptionsInit == SettersInit /\ impl = "humidifier"
SpecOptions == OptionsInit /\ [][OptionsNext /\ UNCHANGED <<xvars, yvars>>]_vars

\* The coordinator's refreshes; the entity stays as constructed.
Init ==
    /\ CoordinatorInit
    /\ product_type \in [Devices -> ProductTypes]
    /\ local_ip \in [Devices -> BOOLEAN]
    /\ impl = "humidifier"
    /\ options = [target |-> Absent, hysteresis |-> Absent, high_mode |-> AbsentMode,
                  low_mode |-> AbsentMode, cooldown |-> Absent]
    /\ sensor_state = [kind |-> "unavailable", value |-> 0]
    /\ humidity_control_enabled = FALSE
    /\ last_mode_change = NoTime
    /\ now = 0
    /\ device = [mode |-> "home", speed |-> DEFAULT_ON_SPEED]
    /\ data = NoState
    /\ check_pc = "idle"
    /\ run = EmptyRun
    /\ EntityConstructed
    /\ EntrySetup
    /\ humidity_sensors = [d \in Devices |-> FALSE]

Next ==
    \/ RefreshBegin
    \/ \E outcome \in {"ok", "auth", "error"} : ApiConnect(outcome)
    \/ DiscoveryFails
    \/ \E connect_ok \in BOOLEAN : SetupDevice(connect_ok)
    \/ SetupEnd
    \/ \E read_ok, cloud_ok \in BOOLEAN : PollDevice(read_ok, cloud_ok)
    \/ RefreshEnd

Spec == Init /\ [][Next /\ UNCHANGED <<xvars, yvars>>]_vars

\* The config entry from async_setup_entry to async_unload_entry: the first
\* refresh, the platforms, later refreshes while the entry is loaded, and the
\* unload.
EntryInit ==
    /\ CoordinatorInit
    /\ product_type \in [Devices -> ProductTypes \ {"CO2_SENSOR_VMI"}]
    /\ local_ip \in [Devices -> BOOLEAN]
    /\ impl = "humidifier"
    /\ options = [target |-> Absent, hysteresis |-> Absent, high_mode |-> AbsentMode,
                  low_mode |-> AbsentMode, cooldown |-> Absent]
    /\ sensor_state = [kind |-> "unavailable", value |-> 0]
    /\ humidity_control_enabled = FALSE
    /\ last_mode_change = NoTime
    /\ now = 0
    /\ device = [mode |-> "home", speed |-> DEFAULT_ON_SPEED]
    /\ data = NoState
    /\ check_pc = "idle"
    /\ run = EmptyRun
    /\ EntityConstructed
    /\ EntrySetup

\* A refresh step of the coordinator: the first refresh during setup, later
\* ones only while the entry is loaded.
CoordinatorStep ==
    /\ entry_state \in {"setup", "loaded"}
    /\ Next
    /\ entry_state = "setup" => cycles' <= 1
    /\ UNCHANGED <<xvars, yvars>>

EntryNext ==
    \/ CoordinatorStep
    \/ async_forward_entry_setups
    \/ \E unload_ok \in BOOLEAN : async_unload_entry(unload_ok)
    \/ \E disconnect_ok \in BOOLEAN : DisconnectModbus(disconnect_ok)
    \/ \E disconnect_ok \in BOOLEAN : DisconnectApi(disconnect_ok)

SpecEntry == EntryInit /\ [][EntryNext]_vars

\* The reading of an entity with up to MaxSensors configured sensors.
ReadingInit ==
    /\ EntityInitExample /\ options.target = 60 /\ impl = "humidifier"
    /\ CoordinatorReady
    /\ entry_state = "loaded"
    /\ humidity_sensors = [d \in Devices |-> TRUE]
    /\ entities = CreatedEntities
    /\ unload = NoUnload
    /\ \E n \in 0..MaxSensors :
          sensor_list = [i \in 1..n |-> [kind |-> "unavailable", tenths |-> 0]]
    /\ reading = NotRead
    /\ SwitchIdle
    /\ ReauthIdle

ReadingNext ==
    \/ ReadHumidity
    \/ \E i \in 1..MaxSensors, s \in SensorReports : SensorReport(i, s)

SpecReading == ReadingInit /\ [][ReadingNext]_vars

\* The humidifier entity and the switch of one heat recovery unit from their
\* construction by the platforms: they are added in either order, the switch
\* is toggled, sensors report, checks run, the humidifier is removed.
SwitchInit ==
    /\ impl = "humidifier"
    /\ options = [target |-> 60, hysteresis |-> Absent, high_mode |-> "party",
                  low_mode |-> "standby", cooldown |-> Absent]
    /\ sensor_state = [kind |-> "unavailable", value |-> 0]
    /\ humidity_control_enabled = FALSE
    /\ last_mode_change = NoTime
    /\ now = 0
    /\ device = [mode |-> "home", speed |-> DEFAULT_ON_SPEED]
    /\ data = device
    /\ check_pc = "idle"
    /\ run = EmptyRun
    /\ sensor_listener = FALSE
    /\ check_tasks = 0
    /\ other = NoOther
    /\ target_humidity = options.target
    /\ call = NoCall
    /\ CoordinatorReady
    /\ entry_state = "loaded"
    /\ humidity_sensors = [d \in Devices |-> TRUE]
    /\ entities = CreatedEntities
    /\ unload = NoUnload
    /\ ReadingIdle
    /\ ReauthIdle
    /\ switch = SwitchConstructed
    /\ humidifier_state = "constructed"

SwitchNext ==
    \/ HumidifierAddedToHass
    \/ HumidifierRemoved
    \/ \E last_state \in {"none", "on", "off"} : SwitchAddedToHass(last_state)
    \/ async_turn_on
    \/ async_turn_off
    \/ (\E s \in SensorEvents : SensorChange(s)) /\ UNCHANGED <<xvars, yvars>>
    \/ check_humidity_control /\ UNCHANGED <<xvars, yvars>>
    \/ CheckFinish /\ UNCHANGED <<xvars, yvars>>

SpecSwitch == SwitchInit /\ [][SwitchNext]_vars

\* The humidifier's check with its controller calls as separate steps, while
\* control is switched on and off, sensors report and the coordinator polls.
InFlightInit ==
    /\ EntityInitExample /\ options.target = 60 /\ impl = "humidifier"
    /\ CoordinatorReady
    /\ EntryLoaded

\* Sensor events with a reading below the band as well.
InFlightEvents == SensorEvents \cup {[kind |-> "value", value |-> 50]}

InFlightNext ==
    \/ CheckIssuesSetMode
    \/ \E set_ok \in BOOLEAN : SetModeReturns(set_ok)
    \/ \E speed_ok \in BOOLEAN : SetSpeedReturns(speed_ok)
    \/ enable_humidity_control
    \/ disable_humidity_control
    \/ \E s \in InFlightEvents : SensorChange(s)
    \/ \E read_ok \in BOOLEAN : CoordinatorRefresh(read_ok)
    \/ \E t \in LaterTimes : Tick(t)

SpecInFlight == InFlightInit /\ [][InFlightNext /\ UNCHANGED <<xvars, yvars>>]_vars

----------------------------------------------------------------------------
(* Claims about the humidity check (SpecHumidity) *)

\* The modes of the set_mode commands a check issued, in order.
SetModes(r) ==
    LET sel == SelectSeq(r.commands, LAMBDA c : c.op = "set_mode")
    IN  [i \in 1..Len(sel) |-> sel[i].mode]

\* The values the claims speak of: the reading, the configured target,
\* hysteresis, modes and cooldown (with the documented defaults).
Reading == get_current_humidity
Target == options.target
Hysteresis == IF options.hysteresis = Absent THEN 5 ELSE options.hysteresis
HighMode == get_humidity_config.high_mode
LowMode == get_humidity_config.low_mode
CooldownSeconds == IF options.cooldown = Absent THEN 60 ELSE options.cooldown
CooldownElapsed == last_mode_change = NoTime \/ now - last_mode_change >= CooldownSeconds
CheckCanAct ==
    /\ humidity_control_enabled
    /\ Reading # NoHumidity
    /\ Target # Absent
    /\ CooldownElapsed

\* C1: with control enabled, a reading and a target available and the
\* cooldown elapsed, a run of the check (mixin, humidifier) issues exactly one
\* set_mode: high_mode when the reading is above min(target + hysteresis, 99)
\* and the mode differs, else low_mode when it is below
\* max(target - hysteresis, 1) and the mode differs; and when the awaited call
\* returns it records the current time as last_mode_change.
C1_OneModeSet ==
    [][/\ (check_humidity_control /\ impl \in {"mixin", "humidifier"} /\ CheckCanAct) =>
            IF Reading > Min(Target + Hysteresis, 99) /\ current_mode # HighMode
            THEN SetModes(run') = <<HighMode>> /\ check_pc' = "await_set_mode"
            ELSE IF Reading < Max(Target - Hysteresis, 1) /\ current_mode # LowMode
            THEN SetModes(run') = <<LowMode>> /\ check_pc' = "await_set_mode"
            ELSE TRUE
       /\ CheckFinish => last_mode_change' = now]_vars

C3_ClampedThresholds ==
    [][(check_humidity_control /\ run'.upper_threshold # NoThreshold) =>
          /\ run'.upper_threshold = Min(Target + Hysteresis, 99)
          /\ run'.lower_threshold = Max(Target - Hysteresis, 1)]_vars

\* C4: the comparisons are strict. A reading equal to the upper threshold of
\* the check never gives a set_mode to high_mode, one equal to the lower
\* threshold never gives a set_mode to low_mode, a reading one above the
\* upper threshold gives exactly the set_mode to high_mode when the mode
\* differs and the check can act; with target 60 and hysteresis 5 the
\* thresholds are 65 and 55.
C4_StrictThresholds ==
    [][(check_humidity_control /\ Reading # NoHumidity /\ Target # Absent) =>
          LET upper == UpperThreshold(Target, Hysteresis)
              lower == LowerThreshold(Target, Hysteresis)
              cmds  == SetModes(run')
          IN  /\ Reading = upper => \A i \in 1..Len(cmds) : cmds[i] # HighMode
              /\ Reading = lower => \A i \in 1..Len(cmds) : cmds[i] # LowMode
              /\ (Reading = upper + 1 /\ current_mode # HighMode /\ CheckCanAct
                  /\ impl \in {"mixin", "humidifier"})
                    => cmds = <<HighMode>>
              /\ (Target = 60 /\ Hysteresis = 5 /\ run'.upper_threshold # NoThreshold)
                    => run'.upper_threshold = 65 /\ run'.lower_threshold = 55]_vars

\* With thresholds 55 and 65 a reading of 66 has just made the check command
\* high_mode.
C4_Witness ==
    /\ check_pc = "await_set_mode"
    /\ run.upper_threshold = 65 /\ run.lower_threshold = 55
    /\ Reading = 66
    /\ SetModes(run) = <<HighMode>>

\* With thresholds 55 and 65 a check that could act has just run on a reading
\* of 65 in another mode than high_mode and issued nothing.
C4_WitnessEqual ==
    /\ check_pc = "idle"
    /\ run.upper_threshold = 65
    /\ Reading = 65
    /\ CheckCanAct /\ current_mode # HighMode
    /\ run.commands = <<>>

----------------------------------------------------------------------------
(* Claims about the coordinator (Spec) *)

\* The reads of device d in the current refresh, and whether the last failed.
Reads(d) == cycle.reads[d]
LocalReadFailed(d) == Reads(d) # <<>> /\ Reads(d)[1] = [via |-> "local", ok |-> FALSE]
LastReadOk(d) == Reads(d) # <<>> /\ Reads(d)[Len(Reads(d))].ok

\* C6: when the read of a device in local mode fails in a poll cycle, exactly
\* one retry through a cloud controller happens in the same cycle and the
\* device's mode becomes cloud.
C6_RuntimeFallback ==
    \A d \in Devices :
        LocalReadFailed(d) =>
            /\ Len(Reads(d)) = 2
            /\ Reads(d)[2].via = "cloud"
            /\ connection_modes[d] = "cloud"

\* C7 as stated: a device with a local address whose local connect fails
\* during setup is in cloud mode and its controller was built exactly once,
\* over the cloud client.
C7_SetupFallbackAsStated ==
    \A d \in Devices :
        cycle.connect[d] = "failed" =>
            /\ connection_modes[d] = "cloud"
            /\ cycle.builds[d] = <<"cloud">>

\* C7 as amended: a device with a local address whose local connect fails
\* during setup, and for whose product type a controller class exists, is in
\* cloud mode with a cloud client, and its controller was built exactly once,
\* over the cloud client.
C7_SetupFallback ==
    \A d \in Devices :
        (cycle.connect[d] = "failed" /\ CreateController(product_type[d]) # "None") =>
            /\ connection_modes[d] = "cloud"
            /\ controllers[d] = "cloud"
            /\ d \in cloud_clients
            /\ cycle.builds[d] = <<"cloud">>

\* Setup is over and a device whose local connect failed is in cloud mode,
\* its controller built once over the cloud client.
C7_Witness ==
    /\ setup_complete
    /\ \E d \in Devices :
          /\ local_ip[d]
          /\ cycle.connect[d] = "failed"
          /\ connection_modes[d] = "cloud"
          /\ cycle.builds[d] = <<"cloud">>

\* Whether the poll loop would try the cloud for device d on a failed read.
EligibleForFallback(d) == connection_modes[d] = "local" /\ d \in cloud_clients

\* C8: when the read of a device in local mode fails and the cloud read fails
\* too, the device is absent from the cycle's result and is still eligible
\* for a local-to-cloud fallback in the next cycle.
C8_FailedFallback ==
    [][(PollDevice(FALSE, FALSE) /\ connection_modes[cursor] = "local") =>
          /\ cursor \notin states'
          /\ EligibleForFallback(cursor)']_vars

\* C9: once a device's mode is cloud, no later step of a refresh sets it to
\* another mode, opens a local connection for it or reads it through a
\* local controller.
C9_StickyCloud ==
    [][\A d \in Devices :
          connection_modes[d] = "cloud" =>
              /\ connection_modes'[d] = "cloud"
              /\ controllers'[d] = "cloud"
              /\ (d \in modbus_clients' => d \in modbus_clients)
              /\ cycle'.connect[d] \in {"none", cycle.connect[d]}
              /\ \A i \in 1..Len(cycle'.reads[d]) : cycle'.reads[d][i].via = "cloud"]_vars

\* A device with a local address that ended setup in cloud mode has been
\* read, through the cloud, in a later poll cycle.
C9_Witness ==
    /\ cycles >= 2
    /\ \E d \in Devices :
          /\ local_ip[d]
          /\ connection_modes[d] = "cloud"
          /\ Reads(d) # <<>>
          /\ \A i \in 1..Len(Reads(d)) : Reads(d)[i].via = "cloud"

\* C10: a failed read is not fatal. Once setup is complete no refresh fails;
\* at the end of a poll cycle a device whose read failed is absent from the
\* result and unavailable, and every device whose read succeeded is present
\* and available.
C10_ReadFailureNotFatal ==
    /\ setup_complete => pc # "failed"
    /\ (pc = "idle" /\ last_error = "ok") =>
          \A d \in Devices :
              /\ LastReadOk(d) => d \in coordinator_data /\ available(d)
              /\ (Reads(d) # <<>> /\ ~LastReadOk(d)) =>
                    d \notin coordinator_data /\ ~available(d)

\* A poll cycle has ended in which the read of one device failed and the
\* read of another succeeded.
C10_Witness ==
    /\ pc = "idle" /\ last_error = "ok"
    /\ \E d, e \in Devices :
          /\ Reads(d) # <<>> /\ ~LastReadOk(d)
          /\ d \notin coordinator_data
          /\ LastReadOk(e)
          /\ e \in coordinator_data

----------------------------------------------------------------------------
(* Claims about setup errors and the polling interval (Spec) *)

C12_PollingInterval ==
    (pc = "idle" /\ last_error = "ok") =>
        update_interval =
            IF \E d \in Devices : connection_modes[d] = "local" THEN 30 ELSE 60

\* A poll cycle has ended with one device in local mode and another in cloud
\* mode, and the interval is 30 seconds.
C12_Witness ==
    /\ pc = "idle" /\ last_error = "ok"
    /\ \E d, e \in Devices : connection_modes[d] = "local" /\ connection_modes[e] = "cloud"
    /\ update_interval = 30

----------------------------------------------------------------------------
(* Claims about the entity's triggers and overlapping checks (SpecEntity) *)

\* The decision of the check on the current attributes, as the class computes
\* its thresholds: whether it wants a mode change.
WantsChange ==
    /\ humidity_control_enabled
    /\ Reading # NoHumidity
    /\ Target # Absent
    /\ (last_mode_change = NoTime
        \/ now - last_mode_change >= get_humidity_config.cooldown)
    /\ \/ Reading > UpperThreshold(Target, Hysteresis) /\ current_mode # HighMode
       \/ Reading < LowerThreshold(Target, Hysteresis) /\ current_mode # LowMode

\* C13: a check that starts while another check is suspended at its awaited
\* mode-set call is not held back by that check: the cooldown timestamp is
\* written only after the awaited call, so the second check passes the
\* cooldown test on the old timestamp and issues its own set_mode.
C13_InterleavedChecks ==
    [][/\ check_humidity_control => last_mode_change' = last_mode_change
       /\ ((\E set_ok, speed_ok \in BOOLEAN : OverlapBegin(set_ok, speed_ok)) /\ WantsChange)
             => /\ Len(SetModes(other')) = 1
                /\ other'.pc = "await_set_mode"
                /\ last_mode_change' = last_mode_change]_vars

\* Two checks are suspended at their awaited calls, each having issued the
\* same set_mode.
C13_Witness ==
    /\ check_pc = "await_set_mode"
    /\ other.pc = "await_set_mode"
    /\ Len(SetModes(run)) = 1
    /\ SetModes(other) = SetModes(run)

----------------------------------------------------------------------------
(* Claims about failed commands and idle checks (SpecHumidity) *)

AfterSwitchToHigh ==
    /\ impl = "humidifier"
    /\ data = NoState
    /\ get_humidity_config.cooldown > 0
    /\ SetModes(run) = <<HighMode>>
    /\ ~run.failed
    /\ device.mode = HighMode
    /\ run.switched_at # NoTime
    /\ last_mode_change = run.switched_at
    /\ Reading # NoHumidity
    /\ Target # Absent
    /\ Reading > UpperThreshold(Target, Hysteresis)

\* C15 as stated: after an automatic switch to the high mode, a check that
\* finds the reading still above the upper threshold issues no set_mode.
C15_NoRepeatAsStated ==
    [][(check_humidity_control /\ AfterSwitchToHigh) => SetModes(run') = <<>>]_vars

\* C15: after an automatic switch, a check that finds the reading above the
\* upper threshold issues no command while the cooldown is active, and
\* none after the cooldown if the coordinator's data shows the unit in the
\* high mode.
C15_NoRepeat ==
    [][(/\ check_humidity_control
        /\ last_mode_change # NoTime
        /\ Reading # NoHumidity
        /\ Target # Absent
        /\ Reading > UpperThreshold(Target, Hysteresis)
        /\ \/ now - last_mode_change < get_humidity_config.cooldown
           \/ current_mode = HighMode)
          => run'.commands = <<>>]_vars

\* After a switch and the cooldown, a check has computed its thresholds, found
\* the unit in the high mode with the reading above the band, and done nothing.
C15_Witness ==
    /\ check_pc = "idle"
    /\ humidity_control_enabled
    /\ last_mode_change # NoTime
    /\ now - last_mode_change >= get_humidity_config.cooldown
    /\ run.upper_threshold # NoThreshold
    /\ Reading # NoHumidity
    /\ Reading > run.upper_threshold
    /\ current_mode = HighMode
    /\ run.commands = <<>>

\* The cases in which a check has nothing to do: control disabled, no reading,
\* no target, cooldown active, reading inside the band, or the unit already in
\* the mode the reading asks for.
NothingToDo ==
    \/ ~humidity_control_enabled
    \/ Reading = NoHumidity
    \/ Target = Absent
    \/ (last_mode_change # NoTime
        /\ now - last_mode_change < get_humidity_config.cooldown)
    \/ /\ Reading >= LowerThreshold(Target, Hysteresis)
       /\ Reading <= UpperThreshold(Target, Hysteresis)
    \/ Reading > UpperThreshold(Target, Hysteresis) /\ current_mode = HighMode
    \/ Reading < LowerThreshold(Target, Hysteresis) /\ current_mode = LowMode

\* C16: a check that has nothing to do issues no controller command, leaves
\* the unit and last_mode_change as they are, and returns without reaching the
\* awaited call after which the time would be recorded.
C16_NoActionNoEffect ==
    [][(check_humidity_control /\ NothingToDo)
          => /\ run'.commands = <<>>
             /\ device' = device
             /\ last_mode_change' = last_mode_change
             /\ check_pc' = "idle"]_vars

\* After an earlier switch and its cooldown, a check found the reading inside
\* the band and returned with nothing done; the recorded time is the earlier one.
C16_Witness ==
    /\ check_pc = "idle"
    /\ humidity_control_enabled
    /\ last_mode_change # NoTime
    /\ last_mode_change < now
    /\ now - last_mode_change >= get_humidity_config.cooldown
    /\ run.upper_threshold # NoThreshold
    /\ run.switched_at = NoTime
    /\ Reading # NoHumidity
    /\ Reading >= run.lower_threshold
    /\ Reading <= run.upper_threshold
    /\ run.commands = <<>>

----------------------------------------------------------------------------
(* Claims about the setters (SpecSetters) *)

\* The commands of a mode change to mode whose set_mode succeeds, as C17
\* states them: set_mode, then speed 0 for standby, speed 50 for another mode
\* when the last known speed is 0.
CommandsAsStated(mode) ==
    <<SetModeCmd(mode)>> \o
        (IF mode = "standby" THEN <<SetSpeedCmd(0)>>
         ELSE IF data # NoState /\ data.speed = 0 THEN <<SetSpeedCmd(DEFAULT_ON_SPEED)>>
         ELSE <<>>)

\* The same with the speed 0 of standby commanded only when the last known
\* state exists and its speed is above 0.
CommandsOfModeChange(mode) ==
    <<SetModeCmd(mode)>> \o
        (IF mode = "standby"
         THEN (IF data # NoState /\ data.speed > 0 THEN <<SetSpeedCmd(0)>> ELSE <<>>)
         ELSE IF data # NoState /\ data.speed = 0 THEN <<SetSpeedCmd(DEFAULT_ON_SPEED)>>
         ELSE <<>>)

\* A step in which a humidity check runs, started on its own or by a valid
\* async_set_humidity with control enabled.
AutomaticCheck(set_ok, speed_ok) ==
    \/ CheckBegin(set_ok, speed_ok)
    \/ \E h \in Humidities :
          /\ ValidHumidity(h)
          /\ humidity_control_enabled
          /\ async_set_humidity(h, set_ok, speed_ok)

\* C17 as stated: a manual mode change whose set_mode succeeds issues set_mode
\* and then speed 0 whenever the new mode is standby.
C17_SpeedAfterModeAsStated ==
    [][\A m \in ManualModes \cap VentilationModes, speed_ok \in BOOLEAN :
          async_set_mode(m, TRUE, speed_ok) => call'.commands = CommandsAsStated(m)]_vars

\* C17: every mode change, manual or automatic, issues set_mode first; when
\* set_mode succeeds it then commands speed 0 for standby if the last known
\* speed is above 0, and speed 50 for another mode if the last known speed is
\* 0; when set_mode fails no speed command follows.
C17_SpeedAfterMode ==
    [][/\ \A m \in ManualModes \cap VentilationModes, speed_ok \in BOOLEAN :
            /\ async_set_mode(m, TRUE, speed_ok)
                  => call'.commands = CommandsOfModeChange(m)
            /\ async_set_mode(m, FALSE, speed_ok)
                  => call'.commands = <<SetModeCmd(m)>>
       /\ \A set_ok, speed_ok \in BOOLEAN :
            (AutomaticCheck(set_ok, speed_ok) /\ run'.commands # <<>>)
               => run'.commands =
                     IF set_ok THEN CommandsOfModeChange(run'.commands[1].mode)
                     ELSE <<SetModeCmd(run'.commands[1].mode)>>]_vars

\* The user switched to standby while the unit was known to run: set_mode,
\* then speed 0.
C17_Witness ==
    /\ call.op = "set_mode"
    /\ call.commands = <<SetModeCmd("standby"), SetSpeedCmd(0)>>
    /\ device = [mode |-> "standby", speed |-> 0]

\* C18: async_set_humidity with a target outside 0..100 and async_set_mode
\* with a string that is no ventilation mode change nothing: no option is
\* written, the cached target and last_mode_change stay, no check runs and no
\* controller command is issued.
C18_InvalidInputRejected ==
    [][\A set_ok, speed_ok \in BOOLEAN :
          /\ \A h \in Humidities :
                (async_set_humidity(h, set_ok, speed_ok) /\ (h < 0 \/ h > 100))
                   => /\ options' = options
                      /\ target_humidity' = target_humidity
                      /\ last_mode_change' = last_mode_change
                      /\ device' = device
                      /\ run' = run
                      /\ check_pc' = check_pc
          /\ \A m \in ManualModes \ VentilationModes :
                async_set_mode(m, set_ok, speed_ok)
                   => /\ call'.commands = <<>>
                      /\ options' = options
                      /\ target_humidity' = target_humidity
                      /\ last_mode_change' = last_mode_change
                      /\ device' = device]_vars

\* A target above 100 was asked for while control was enabled with a target
\* configured, and the configured target is still there.
C18_Witness ==
    /\ call.op = "set_humidity"
    /\ call.humidity > 100
    /\ humidity_control_enabled
    /\ options.target = 60
    /\ (impl = "humidifier" => target_humidity = 60)

----------------------------------------------------------------------------
(* Claims about the toggle and the sensor listener (SpecEntity) *)

C20_SensorEventStartsCheck ==
    [][\A s \in SensorEvents :
          (SensorChange(s) /\ sensor_listener)
             => /\ (check_tasks' = check_tasks + 1)
                      <=> (/\ humidity_control_enabled
                           /\ s.kind \notin {"removed", "unavailable", "unknown"})
                /\ check_tasks' \in {check_tasks, check_tasks + 1}]_vars

\* With control enabled and the listener registered the sensor reported 66 and
\* a check waits to run.
C20_Witness ==
    /\ impl = "humidifier"
    /\ humidity_control_enabled
    /\ sensor_listener
    /\ sensor_state = [kind |-> "value", value |-> 66]
    /\ check_tasks = 1

----------------------------------------------------------------------------
(* Claims about the config entry (SpecEntry) *)

\* A discovered device for whose product type _create_controller returns None.
NoControllerBuilt(d) == d \in devices /\ CreateController(product_type[d]) = "None"

C22_UnloadDisconnectsAsStated ==
    entry_state \in {"unloaded", "unload_failed"} =>
        /\ unload.calls = modbus_clients
        /\ unload.api \in {"closed", "failed"}

\* C22: when the platforms have unloaded and async_unload_entry has returned,
\* disconnect has been called on every Modbus client that was connected and on
\* the cloud API, whichever of these calls raised; the clients whose
\* disconnect did not raise are closed.
C22_UnloadDisconnects ==
    /\ entry_state = "unloaded" =>
          /\ unload.calls = modbus_clients
          /\ unload.closed \subseteq unload.calls
          /\ unload.api \in {"closed", "failed"}
    /\ entry_state = "unloading" =>
          unload.calls = {d \in modbus_clients : d < unload.cursor}

\* The unload has returned although the first of two Modbus clients raised on
\* disconnect; the second was disconnected after it, and the API too.
C22_Witness ==
    /\ entry_state = "unloaded"
    /\ modbus_clients = {1, 2}
    /\ unload.calls = {1, 2}
    /\ unload.closed = {2}
    /\ unload.api = "closed"

----------------------------------------------------------------------------
(* Claims about the humidity reading (SpecReading) *)

\* The integer values of the sensors whose state exists and is neither
\* unavailable nor unknown nor a text that is no number.
UsableValues(list) ==
    {IntOfFloat(list[i].tenths) : i \in {j \in 1..Len(list) : list[j].kind = "number"}}

\* C23: the reading is the maximum of the integer values of the usable
\* sensors, and null when no sensor is configured or none is usable; a sensor
\* that yields no value never changes this.
C23_MaxOfUsableSensors ==
    reading.status # "not_read" =>
        IF UsableValues(sensor_list) = {}
        THEN reading.status = "none"
        ELSE /\ reading.status = "value"
             /\ reading.value \in UsableValues(sensor_list)
             /\ \A v \in UsableValues(sensor_list) : v <= reading.value

----------------------------------------------------------------------------
(* Claims about the switch and the humidifier entity's life (SpecSwitch) *)

\* C24: once the switch and the humidifier entity of the device are both
\* added, in whichever order, the switch reports on exactly when humidity
\* control is enabled on the humidifier entity.
C24_SwitchMatchesControl ==
    (switch.added /\ humidifier_state = "added") =>
        (switch.is_on <=> humidity_control_enabled)

\* C26: while the humidifier entity is added it is subscribed to its humidity
\* sensors, whether or not humidity control is enabled.
C26_SubscribedWhileAdded ==
    humidifier_state = "added" => sensor_listener

----------------------------------------------------------------------------
(* Claims about checks in flight (SpecInFlight) *)

\* C25: a step in which the automatic check issues a controller command
\* (set_mode or set_speed) starts in a state where humidity control is enabled.
C25_NoCommandAfterDisable ==
    [][(/\ CheckIssuesSetMode \/ \E set_ok \in BOOLEAN : SetModeReturns(set_ok)
        /\ run'.commands # <<>>
        /\ run'.commands # run.commands)
          => humidity_control_enabled]_vars

\* The entry of a coordinator whose first refresh failed at api.connect with
\* CloudAuthenticationError: nothing discovered, no entity added.
ReauthInit ==
    /\ EntityInitExample /\ options.target = 60 /\ impl = "humidifier"
    /\ pc = "failed"
    /\ cursor = 1
    /\ setup_complete = FALSE
    /\ api = "created"
    /\ devices = {}
    /\ cloud_clients = {}
    /\ modbus_clients = {}
    /\ controllers = [d \in Devices |-> NoController]
    /\ connection_modes = [d \in Devices |-> "none"]
    /\ update_interval = UPDATE_INTERVAL_CLOUD
    /\ states = {}
    /\ coordinator_data = {}
    /\ last_error = "auth_failed"
    /\ product_type = [d \in Devices |-> "HEAT_RECOVERY_UNIT"]
    /\ local_ip = [d \in Devices |-> FALSE]
    /\ cycle = NoLog
    /\ cycles = 1
    /\ entry_state = "setup"
    /\ humidity_sensors = [d \in Devices |-> FALSE]
    /\ entities = {}
    /\ unload = NoUnload
    /\ ReadingIdle
    /\ SwitchIdle
    /\ config_entry \in [entry_id : EntryIds, username : Usernames,
                          password : Passwords]
    /\ reauth = NoReauth

ReauthNext ==
    \/ async_step_reauth
    \/ \E password \in Passwords, outcome \in {"ok", "auth", "error"} :
          async_step_reauth_confirm(password, outcome)

SpecReauth == ReauthInit /\ [][ReauthNext]_vars

----------------------------------------------------------------------------
(* Claims about re-authentication (SpecReauth) *)

ReauthSucceeds ==
    \E password \in Passwords : async_step_reauth_confirm(password, "ok")

\* C30: a successful re-authentication leaves the stored username as it was
\* and replaces the password, and the credentials it validated against the
\* cloud API are that username with the new password.
C30_ReauthReplacesPasswordOnly ==
    [][ReauthSucceeds =>
          /\ config_entry'.username = config_entry.username
          /\ config_entry'.entry_id = config_entry.entry_id
          /\ reauth'.validated = [username |-> config_entry.username,
                                  password |-> config_entry'.password]]_vars

----------------------------------------------------------------------------
(* Claims about the stored options and the cached target (SpecOptions) *)

\* C27: the target humidity the humidifier entity reports (its cached target)
\* equals the target the humidity check reads from the stored options.
C27_ReportedTargetIsCheckedTarget ==
    impl = "humidifier" => target_humidity = get_humidity_config.target

----------------------------------------------------------------------------
(* Claims about the coordinator's maps (Spec) *)

HasController == {d \in Devices : controllers[d] # NoController}
HasConnectionMode == {d \in Devices : connection_modes[d] # "none"}

\* C28: after setup and after every poll cycle the devices with a controller
\* are the devices with a connection mode, each device in local mode has a
\* Modbus client that connected, each device in cloud mode has a cloud client
\* and each device with a controller is a discovered device.
C28_MapsAgree ==
    (setup_complete /\ pc = "idle") =>
        /\ HasController = HasConnectionMode
        /\ \A d \in Devices :
              /\ connection_modes[d] = "local" => d \in modbus_clients
              /\ connection_modes[d] = "cloud" => d \in cloud_clients
              /\ d \in HasController => d \in devices

\* A second poll cycle has ended with one device in local mode, another in
\* cloud mode.
C28_Witness ==
    /\ setup_complete /\ pc = "idle" /\ cycles >= 2
    /\ \E d, e \in Devices :
          /\ connection_modes[d] = "local" /\ d \in modbus_clients
          /\ connection_modes[e] = "cloud" /\ e \in cloud_clients

----------------------------------------------------------------------------
(* Claims about the frame of a change of the target (SpecSetters) *)

SetHumidityStep ==
    \E h \in Humidities, set_ok, speed_ok \in BOOLEAN :
        async_set_humidity(h, set_ok, speed_ok)

\* C29: a call of async_set_humidity on the humidifier or the climate entity
\* leaves every stored option but the unit's target as it was (hysteresis,
\* modes, cooldown, sensors, local addresses) and does not itself change
\* last_mode_change; the check it runs is left at its awaited call only with
\* a mode-set issued, and last_mode_change changes only when a check resumes
\* from such a call.
C29_TargetWriteFrame ==
    [][/\ SetHumidityStep =>
             /\ options'.hysteresis = options.hysteresis
             /\ options'.high_mode = options.high_mode
             /\ options'.low_mode = options.low_mode
             /\ options'.cooldown = options.cooldown
             /\ humidity_sensors' = humidity_sensors
             /\ local_ip' = local_ip
             /\ last_mode_change' = last_mode_change
             /\ (check_pc' = "await_set_mode" =>
                    /\ run'.commands # <<>>
                    /\ Head(run'.commands).op = "set_mode")
       /\ last_mode_change' # last_mode_change =>
             /\ check_pc = "await_set_mode"
             /\ run.commands # <<>>
             /\ Head(run.commands).op = "set_mode"]_vars

\* A valid target was stored with control enabled, and a check that issued a
\* mode-set has recorded the time.
C29_Witness ==
    /\ call.op = "set_humidity"
    /\ options.target = call.humidity
    /\ options.high_mode = "party"
    /\ humidity_control_enabled
    /\ run.commands # <<>>
    /\ last_mode_change # NoTime

====
